---- MODULE Spec2Model ----
(***************************************************************************)
(* kusari-uploader: the blocked-package check that follows an upload.      *)
(*                                                                         *)
(* checkSBOMsForBlockedPackages (src/unnamed/part_001, lines 801-890)      *)
(* walks the uploaded (subject, uri) entries, starts one errgroup task per *)
(* checkable entry (at most 5 at a time), and every task resolves its      *)
(* entry to platform ids (retrying on 404) and asks the check endpoint.    *)
(* A state of the model is a state of one call of that function: the       *)
(* dispatch loop's index, every task's position, the errgroup, the shared  *)
(* context and the result slots.  A task moves at its blocking points: the *)
(* start of its goroutine, a request in flight, the one-second sleep.      *)
(*                                                                         *)
(* uploadFiles (lines 692-789) comes before it: it validates the flags,     *)
(* uploads the file or walks the directory (one presign POST and one PUT   *)
(* per file, one after the other), and hands the (subject, uri) entries it *)
(* read off the uploaded files to the check.  Its state is the position in *)
(* that sequence, the requests made and the entries collected.             *)
(*                                                                         *)
(* The loop variables i and ssau are per-iteration (the CI builds with     *)
(* Go 1.22.3, .github/workflows/ci.yml line 17), so each task owns its     *)
(* own index.                                                              *)
(***************************************************************************)
EXTENDS Naturals, Sequences, FiniteSets

\* ---------------------------------------------------------------- bounds

\* Longest input sequence of the general specification.
MaxEntries == 2

\* Most 404 answers the tenant gives, all identity lookups of a call taken
\* together.
MaxRetries == 1

\* g.SetLimit(5)
Limit == 5

\* Most entries (regular files and directories) below the directory walked.
MaxFiles == 2

\* ---------------------------------------------------------------- inputs

Subjects == {"", "s"}

Uris == {"", "u"}

\* type sbomSubjectAndURI struct { subject string; uri string }
sbomSubjectAndURI == [subject : Subjects, uri : Uris]

\* type softwareIDAndSbomID: the decoded body of an identity answer.
softwareIDAndSbomID == {[SoftwareID |-> 1, SbomID |-> 2], [SoftwareID |-> 2, SbomID |-> 1]}

\* The zero value of "var ids softwareIDAndSbomID".
NoIds == [SoftwareID |-> 0, SbomID |-> 0]

\* The blocked_packages arrays the check endpoint answers with.
PurlLists == {<< >>, <<"a", "b">>}

\* type blockedPackages: the decoded body of a check answer.
blockedPackages == [Blocked : BOOLEAN, BlockedPackages : PurlLists]

\* The zero value of "var bps blockedPackages".
NoPackages == [Blocked |-> FALSE, BlockedPackages |-> << >>]

\* ------------------------------------------------------- the HTTP client

\* What client.Do hands back (makePicoReq passes it on unchanged): an error
\* and no response, or a response with a status and a body.  A body is
\* JSON that decodes to val ("json"), text that is not JSON ("garbage"), a
\* stream that breaks while io.ReadAll reads it ("unreadable"), or of no
\* interest because the status is not 200 ("none").
NoErr == "nil"

IdAnswers ==
    {[err |-> "transport", status |-> 0, body |-> "none", val |-> NoIds]}
    \cup {[err |-> NoErr, status |-> c, body |-> "none", val |-> NoIds] : c \in {404, 500}}
    \cup {[err |-> NoErr, status |-> 200, body |-> b, val |-> NoIds] : b \in {"garbage", "unreadable"}}
    \cup {[err |-> NoErr, status |-> 200, body |-> "json", val |-> v] : v \in softwareIDAndSbomID}

CheckAnswers ==
    {[err |-> "transport", status |-> 0, body |-> "none", val |-> NoPackages]}
    \cup {[err |-> NoErr, status |-> c, body |-> "none", val |-> NoPackages] : c \in {404, 500}}
    \cup {[err |-> NoErr, status |-> 200, body |-> b, val |-> NoPackages] : b \in {"garbage", "unreadable"}}
    \cup {[err |-> NoErr, status |-> 200, body |-> "json", val |-> v] : v \in blockedPackages}

\* How the tenant API treats the requests of one entry: "any" answers with
\* anything above; "plain" resolves the identity at once and answers the
\* check with one verdict or a 500; "late" answers 404 before it resolves.
\* The others answer each request in one way only: "clean" resolves the
\* identity and finds nothing blocked, "broken" resolves it and answers the
\* check with a 404 or a 500 (the check treats them alike), "unknown"
\* answers the identity lookup with a 500, "never" with a 404 every time.
Tenants == {"any", "plain", "late", "clean", "broken", "unknown", "never"}

PlainIds == [SoftwareID |-> 1, SbomID |-> 2]

PlainPackages == [Blocked |-> TRUE, BlockedPackages |-> <<"a", "b">>]

IdAnswersOf(t) ==
    CASE t = "any" -> IdAnswers
      [] t = "plain" -> {r \in IdAnswers : r.status = 200 /\ r.body = "json" /\ r.val = PlainIds}
      [] t = "late" -> {r \in IdAnswers : r.status = 404 \/ (r.status = 200 /\ r.body = "json" /\ r.val = PlainIds)}
      [] t \in {"clean", "broken"} -> {r \in IdAnswers : r.status = 200 /\ r.body = "json" /\ r.val = PlainIds}
      [] t = "unknown" -> {r \in IdAnswers : r.status = 500}
      [] t = "never" -> {r \in IdAnswers : r.status = 404}

CheckAnswersOf(t) ==
    CASE t = "any" -> CheckAnswers
      [] t = "plain" -> {r \in CheckAnswers : r.status = 500 \/ (r.status = 200 /\ r.body = "json" /\ r.val = PlainPackages)}
      [] t = "late" -> {r \in CheckAnswers : r.status = 200 /\ r.body = "json" /\ r.val = PlainPackages}
      [] t = "clean" -> {r \in CheckAnswers : r.status = 200 /\ r.body = "json" /\ r.val = NoPackages}
      [] t \in {"broken", "unknown", "never"} -> {r \in CheckAnswers : r.status \in {404, 500}}

\* ----------------------------------------------------------------- state

VARIABLES
    ssaus,        \* the argument: the entries to check
    tenant,       \* per entry, how the tenant API treats its requests
    next,         \* the index i the dispatch loop (line 811) is at
    tpc,          \* per entry, where its task is
    idCalls,      \* per entry, client.Do calls for the identity lookup
    chkCalls,     \* per entry, client.Do calls for the block check
    ids,          \* per task, its local "ids"
    recv,         \* per entry, the check body its task decoded
    blocked,      \* the slice "blocked"
    blockedPurls, \* the slice "blockedPurls"
    gerr,         \* the errgroup's first error (g.err)
    ctxErr,       \* ctx.Err() of the group's context
    ret,          \* what the call returned
    out,          \* the lines printed on stdout
    call,         \* the function the run enters by
    flags,        \* the flags uploadFiles reads (lines 703-708)
    path,         \* what file-path names, and the walk below it
    upc,          \* where uploadFiles (or uploadDirectory) is
    w,            \* the entry the walk is at
    purl,         \* uploadSingleFile's local "presignedUrl"
    resp,         \* the response the function in progress holds
    reqs,         \* the requests handed to the two HTTP clients so far
    acc,          \* the slice "ssaus" of uploadDirectory and uploadFiles
    uerr,         \* the error the upload returned
    exit          \* the code the process exits with, once upc is "exited"

\* The state of checkSBOMsForBlockedPackages and of what comes before it.
checker == <<ssaus, tenant, next, tpc, idCalls, chkCalls, ids, recv, blocked, blockedPurls, gerr, ctxErr, ret, out>>

upload == <<call, flags, path, upc, w, purl, resp, reqs, acc, uerr, exit>>

vars == <<ssaus, tenant, next, tpc, idCalls, chkCalls, ids, recv, blocked, blockedPurls, gerr, ctxErr, ret, out,
          call, flags, path, upc, w, purl, resp, reqs, acc, uerr, exit>>

N == Len(ssaus)

Idx == 1..N

\* A task that g.Go started and that has not returned holds a slot of the
\* semaphore (errgroup: g.sem <- token{} in Go, <-g.sem in done).
Running == {"start", "idReq", "sleep", "chkReq"}

Active == Cardinality({i \in Idx : tpc[i] \in Running})

\* line 812: if ssau.subject == "" && ssau.uri == "" { continue }
SkippedNever(ssau) == FALSE

SkippedEither(ssau) == ssau.subject = "" \/ ssau.uri = ""

Skipped(ssau) == ssau.subject = "" /\ ssau.uri = ""

\* The errors a task returns (fmt.Errorf of lines 823-868); a failed request
\* names what made client.Do fail.
ErrRequest(op, cause) == <<"request", op, cause>>

ErrRead(op) == <<"read", op, "body">>

ErrUnmarshal(op) == <<"unmarshal", op, "body">>

ErrStatus(op) == <<"status", op, "code">>

Nil == <<"nil", "nil", "nil">>

\* --------------------------------------------------------------- helpers

\* g.SetLimit(5): g.Go blocks while 5 tasks hold a slot.  It does not look
\* at the context: a cancelled group still starts what is handed to it.
CanStartOffByOne == Active <= Limit

CanStart == Active < Limit

\* errgroup's goroutine wrapper: g.errOnce.Do(func() { g.err = err; ... })
LastErr(old, e) == e

FirstErr(old, e) == IF old = Nil THEN e ELSE old

\* ... and in the same Once: g.cancel(g.err).  A context that is already
\* done keeps its first error.
Cancelled(c) == IF c = "none" THEN "canceled" ELSE c

\* line 893: http.NewRequestWithContext(ctx, ...): the request carries the
\* group's context, and client.Do fails with ctx.Err() when it is done.
ReqDoneNever == FALSE

ReqDone == ctxErr # "none"

CtxFailure(v) == [err |-> ctxErr, status |-> 0, body |-> "none", val |-> v]

\* The 404 answers entry i has had: every identity lookup but the last was
\* answered 404, and so was the last when the task sleeps.
NotFounds(i) ==
    IF tpc[i] = "sleep" THEN idCalls[i]
    ELSE IF idCalls[i] = 0 THEN 0 ELSE idCalls[i] - 1

RECURSIVE NotFoundsUpTo(_)
NotFoundsUpTo(i) == IF i = 0 THEN 0 ELSE NotFounds(i) + NotFoundsUpTo(i - 1)

\* What the identity request in flight for entry i may come back with: an
\* answer of the tenant (at most MaxRetries 404s in all), or the context's
\* error once the context is done.
IdReplies(i) ==
    {r \in IdAnswersOf(tenant[i]) : r.status = 404 => NotFoundsUpTo(N) < MaxRetries}
    \cup (IF ReqDone THEN {CtxFailure(NoIds)} ELSE {})

CheckReplies(i) ==
    CheckAnswersOf(tenant[i])
    \cup (IF ReqDone THEN {CtxFailure(NoPackages)} ELSE {})

\* lines 822-842: what the task does with the outcome of the identity
\* request.
IdVerdictNoRetry(r) ==
    IF r.err # NoErr THEN "request"
    ELSE IF r.status = 200
         THEN (IF r.body = "unreadable" THEN "read"
               ELSE IF r.body = "garbage" THEN "unmarshal" ELSE "resolved")
         ELSE "status"

IdVerdictRetryAll(r) ==
    IF r.err # NoErr THEN "request"
    ELSE IF r.status = 200
         THEN (IF r.body = "unreadable" THEN "read"
               ELSE IF r.body = "garbage" THEN "unmarshal" ELSE "resolved")
         ELSE "retry"

IdVerdictRetryTransport(r) ==
    IF r.err = "transport" THEN "retry"
    ELSE IF r.err # NoErr THEN "request"
    ELSE IF r.status = 200
         THEN (IF r.body = "unreadable" THEN "read"
               ELSE IF r.body = "garbage" THEN "unmarshal" ELSE "resolved")
         ELSE IF r.status = 404 THEN "retry" ELSE "status"

IdVerdict(r) ==
    IF r.err # NoErr THEN "request"
    ELSE IF r.status = 200
         THEN (IF r.body = "unreadable" THEN "read"
               ELSE IF r.body = "garbage" THEN "unmarshal" ELSE "resolved")
         ELSE IF r.status = 404 THEN "retry" ELSE "status"

\* lines 847-868: the same for the check request: no status is retried.
CheckVerdictLenient(r) ==
    IF r.err # NoErr THEN "request"
    ELSE IF r.status = 200
         THEN (IF r.body = "unreadable" THEN "read"
               ELSE IF r.body = "garbage" THEN "unmarshal" ELSE "decoded")
         ELSE IF r.status = 404 THEN "decoded" ELSE "status"

CheckVerdict(r) ==
    IF r.err # NoErr THEN "request"
    ELSE IF r.status = 200
         THEN (IF r.body = "unreadable" THEN "read"
               ELSE IF r.body = "garbage" THEN "unmarshal" ELSE "decoded")
         ELSE "status"

\* The error a task returns for a verdict that ends it.
ErrOf(verdict, op, r) ==
    CASE verdict = "request" -> ErrRequest(op, r.err)
      [] verdict = "read" -> ErrRead(op)
      [] verdict = "unmarshal" -> ErrUnmarshal(op)
      [] OTHER -> ErrStatus(op)

\* lines 863-866: if bps.Blocked { blocked[i] = true; blockedPurls[i] = ... }
StoreBlockedLast(b, i, bps) == IF bps.Blocked THEN [b EXCEPT ![Len(b)] = TRUE] ELSE b

StoreBlocked(b, i, bps) == IF bps.Blocked THEN [b EXCEPT ![i] = TRUE] ELSE b

StorePurls(p, i, bps) == IF bps.Blocked THEN [p EXCEPT ![i] = bps.BlockedPackages] ELSE p

\* lines 882-884: one line per blocked package, in slice order.
RECURSIVE PurlLinesReversed(_)
PurlLinesReversed(l) == IF l = << >> THEN << >> ELSE PurlLinesReversed(Tail(l)) \o <<<<"purl", Head(l)>>>>

RECURSIVE PurlLines(_)
PurlLines(l) == IF l = << >> THEN << >> ELSE <<<<"purl", Head(l)>>>> \o PurlLines(Tail(l))

\* lines 880-886: the report of entry i: header, packages, empty line.
ReportOf(i) ==
    IF blocked[i]
    THEN <<<<"Blocked packages found for SBOM subject", ssaus[i].subject, ssaus[i].uri>>>>
         \o PurlLines(blockedPurls[i]) \o <<<<"">>>>
    ELSE << >>

\* lines 879-887: for i, v := range blocked { ... }
RECURSIVE ReportFromReversed(_)
ReportFromReversed(i) == IF i > Len(blocked) THEN << >> ELSE ReportFromReversed(i + 1) \o ReportOf(i)

RECURSIVE ReportFrom(_)
ReportFrom(i) == IF i > Len(blocked) THEN << >> ELSE ReportOf(i) \o ReportFrom(i + 1)

\* line 889: slices.Contains(blocked, true)
ContainsOnly(b, v) == \A i \in DOMAIN b : b[i] = v

Contains(b, v) == \E i \in DOMAIN b : b[i] = v

\* lines 875-877 and 889: what the function returns once g.Wait has.
ReturnedWithVerdict(err, b) == [st |-> "returned", blocked |-> Contains(b, TRUE), err |-> err]

Returned(err, b) ==
    IF err # Nil
    THEN [st |-> "returned", blocked |-> FALSE, err |-> err]
    ELSE [st |-> "returned", blocked |-> Contains(b, TRUE), err |-> Nil]

\* --------------------------------------------------------------- actions

\* A task returns a non-nil error (any "return fmt.Errorf(...)" of lines
\* 823-868): its locals die, the group keeps the first error and cancels
\* the context, the slot is released.
Fail(i, e) ==
    /\ tpc' = [tpc EXCEPT ![i] = "failed"]
    /\ ids' = [ids EXCEPT ![i] = NoIds]
    /\ gerr' = FirstErr(gerr, e)
    /\ ctxErr' = Cancelled(ctxErr)

\* line 811-814: the loop passes over an entry with both fields empty.
Skip ==
    /\ ret.st = "running"
    /\ next <= N
    /\ Skipped(ssaus[next])
    /\ next' = next + 1
    /\ UNCHANGED upload
    /\ UNCHANGED <<ssaus, tenant, tpc, idCalls, chkCalls, ids, recv, blocked, blockedPurls, gerr, ctxErr, ret, out>>

\* line 816: g.Go(func() error {...}) takes a slot and starts the goroutine.
Go ==
    /\ ret.st = "running"
    /\ next <= N
    /\ ~Skipped(ssaus[next])
    /\ CanStart
    /\ tpc' = [tpc EXCEPT ![next] = "start"]
    /\ next' = next + 1
    /\ UNCHANGED upload
    /\ UNCHANGED <<ssaus, tenant, idCalls, chkCalls, ids, recv, blocked, blockedPurls, gerr, ctxErr, ret, out>>

\* lines 819-824: the task, newly started or back from time.Sleep, calls
\* makePicoReq for the identity lookup.
IdLookup(i) ==
    /\ tpc[i] \in {"start", "sleep"}
    /\ idCalls' = [idCalls EXCEPT ![i] = @ + 1]
    /\ IF ReqDone
       THEN Fail(i, ErrRequest("IDs", ctxErr))
       ELSE /\ tpc' = [tpc EXCEPT ![i] = "idReq"]
            /\ UNCHANGED <<ids, gerr, ctxErr>>
    /\ UNCHANGED upload
    /\ UNCHANGED <<ssaus, tenant, next, chkCalls, recv, blocked, blockedPurls, ret, out>>

\* lines 845-849: the task calls makePicoReq for the block check with the
\* ids it decoded.
CheckLookupSwapped(i, v) ==
    /\ chkCalls' = [chkCalls EXCEPT ![i] = @ + 1]
    /\ IF ReqDone
       THEN Fail(i, ErrRequest("check", ctxErr))
       ELSE /\ tpc' = [tpc EXCEPT ![i] = "chkReq"]
            /\ ids' = [ids EXCEPT ![i] = [SoftwareID |-> v.SbomID, SbomID |-> v.SoftwareID]]
            /\ UNCHANGED <<gerr, ctxErr>>

CheckLookup(i, v) ==
    /\ chkCalls' = [chkCalls EXCEPT ![i] = @ + 1]
    /\ IF ReqDone
       THEN Fail(i, ErrRequest("check", ctxErr))
       ELSE /\ tpc' = [tpc EXCEPT ![i] = "chkReq"]
            /\ ids' = [ids EXCEPT ![i] = v]
            /\ UNCHANGED <<gerr, ctxErr>>

\* lines 820-843, then 845: the identity request comes back.
IdResponse(i) ==
    /\ tpc[i] = "idReq"
    /\ \E r \in IdReplies(i) :
         LET verdict == IdVerdict(r) IN
         CASE verdict = "resolved" -> CheckLookup(i, r.val)
           [] verdict = "retry" ->
                /\ tpc' = [tpc EXCEPT ![i] = "sleep"]
                /\ UNCHANGED <<ids, gerr, ctxErr, chkCalls>>
           [] OTHER ->
                Fail(i, ErrOf(verdict, "IDs", r)) /\ UNCHANGED chkCalls
    /\ UNCHANGED upload
    /\ UNCHANGED <<ssaus, tenant, next, idCalls, recv, blocked, blockedPurls, ret, out>>

\* lines 845-871: the check request comes back.
CheckResponse(i) ==
    /\ tpc[i] = "chkReq"
    /\ \E r \in CheckReplies(i) :
         LET verdict == CheckVerdict(r) IN
         IF verdict = "decoded"
         THEN /\ recv' = [recv EXCEPT ![i] = r.val]
              /\ blocked' = StoreBlocked(blocked, i, r.val)
              /\ blockedPurls' = StorePurls(blockedPurls, i, r.val)
              /\ tpc' = [tpc EXCEPT ![i] = "ok"]
              /\ ids' = [ids EXCEPT ![i] = NoIds]
              /\ UNCHANGED <<gerr, ctxErr>>
         ELSE Fail(i, ErrOf(verdict, "check", r)) /\ UNCHANGED <<recv, blocked, blockedPurls>>
    /\ UNCHANGED upload
    /\ UNCHANGED <<ssaus, tenant, next, idCalls, chkCalls, ret, out>>

\* lines 875-889: the loop is over and every task has returned, so g.Wait
\* returns (cancelling the context) and the function reports and returns.
WaitReportsFirst ==
    /\ ret.st = "running"
    /\ next > N
    /\ Active = 0
    /\ ret' = Returned(gerr, blocked)
    /\ out' = out \o ReportFrom(1)
    /\ ctxErr' = Cancelled(ctxErr)
    /\ UNCHANGED upload
    /\ UNCHANGED <<ssaus, tenant, next, tpc, idCalls, chkCalls, ids, recv, blocked, blockedPurls, gerr>>

Wait ==
    /\ ret.st = "running"
    /\ next > N
    /\ Active = 0
    /\ ret' = Returned(gerr, blocked)
    /\ out' = IF gerr # Nil THEN out ELSE out \o ReportFrom(1)
    /\ ctxErr' = Cancelled(ctxErr)
    /\ UNCHANGED upload
    /\ UNCHANGED <<ssaus, tenant, next, tpc, idCalls, chkCalls, ids, recv, blocked, blockedPurls, gerr>>

\* line 802: context.WithTimeout(ctx, 15*time.Minute) runs out.
DeadlineExpire ==
    /\ ret.st = "running"
    /\ ctxErr = "none"
    /\ ctxErr' = "deadline"
    /\ UNCHANGED upload
    /\ UNCHANGED <<ssaus, tenant, next, tpc, idCalls, chkCalls, ids, recv, blocked, blockedPurls, gerr, ret, out>>

\* ------------------------------------------------------------ the upload

\* The flags of lines 703-708.  tag, software-id and sbom-subject decide
\* something only when open-vex is set (line 716), so they vary with it.
Flags ==
    {f \in [isOpenVex : BOOLEAN, tag : {"", "govulncheck"}, softwareID : {"", "7"},
            sbomSubject : {"", "s"}, checkBlockedPackages : BOOLEAN] :
        ~f.isOpenVex => (f.tag = "" /\ f.softwareID = "" /\ f.sbomSubject = "")}

NoFlags == [isOpenVex |-> FALSE, tag |-> "", softwareID |-> "", sbomSubject |-> "", checkBlockedPackages |-> FALSE]

\* The string fields the decodings of lines 1102-1114 read off a JSON
\* object (cdxSBOM and spdxSBOM, lines 1013-1027): "" for a field that is
\* absent or empty.
NoFields ==
    [bomFormat |-> "", serialNumber |-> "", component |-> "",
     SPDXID |-> "", documentNamespace |-> "", name |-> ""]

Documents ==
    [bomFormat : {"", "CycloneDX", "SPDX"}, serialNumber : {"", "u"}, component : {"", "s"},
     SPDXID : {"", "SPDXRef-DOCUMENT", "SPDXRef-Package"}, documentNamespace : {"", "n"}, name : {"", "p"}]

\* The bytes of a file: none, bytes json.Unmarshal rejects, or a JSON object.
EmptyBlob == [size |-> 0, json |-> FALSE, doc |-> NoFields]

TextBlob == [size |-> 1, json |-> FALSE, doc |-> NoFields]

CdxBlob ==
    [size |-> 1, json |-> TRUE,
     doc |-> [NoFields EXCEPT !.bomFormat = "CycloneDX", !.serialNumber = "u", !.component = "s"]]

Blobs == {EmptyBlob, TextBlob} \cup {[size |-> 1, json |-> TRUE, doc |-> d] : d \in Documents}

\* What filepath.Walk hands to its callback: a directory or a regular file.
DirNode == [isDir |-> TRUE, blob |-> EmptyBlob]

FileNode(b) == [isDir |-> FALSE, blob |-> b]

NoPath == [kind |-> "missing", nodes |-> << >>]

\* The zero value sbomSubjectAndURI{}.
NoEntry == [subject |-> "", uri |-> ""]

\* A nil error of the upload functions; their errors are the messages of
\* the fmt.Errorf chain, outermost first.
NoError == << >>

\* What authorizedClient.Post hands back for the presign request (line
\* 919): an error, or a status with a body; a JSON body holds presignedUrl
\* ("" when the field is absent).
PresignAnswers ==
    {[err |-> "transport", status |-> 0, body |-> "none", url |-> ""]}
    \cup {[err |-> NoErr, status |-> c, body |-> "none", url |-> ""] : c \in {204, 401, 500}}
    \cup {[err |-> NoErr, status |-> 200, body |-> b, url |-> ""] : b \in {"garbage", "unreadable"}}
    \cup {[err |-> NoErr, status |-> 200, body |-> "json", url |-> u] : u \in {"", "https://bucket/key"}}

\* What defaultClient.Do hands back for the PUT (line 1078).
PutAnswers ==
    {[err |-> "transport", status |-> 0, body |-> "none", url |-> ""]}
    \cup {[err |-> NoErr, status |-> c, body |-> "none", url |-> ""] : c \in {200, 204, 401, 500}}

\* A request to the empty URL passes http.NewRequest (line 1071) and fails
\* in Do: there is no scheme to send it by.
PutReplies(u) == IF u = "" THEN {r \in PutAnswers : r.err # NoErr} ELSE PutAnswers

NoResponse == [err |-> NoErr, status |-> 0, body |-> "none", url |-> "", to |-> "none"]

Received(r, method) == [err |-> r.err, status |-> r.status, body |-> r.body, url |-> r.url, to |-> method]

\* lines 919-954: what getPresignedUrl makes of the answer to its POST.
getPresignedUrlUnlessUnauthorized(r) ==
    IF r.err # NoErr THEN [url |-> "", err |-> <<"failed to POST to tenant endpoint", r.err>>]
    ELSE IF r.status = 401 THEN [url |-> "", err |-> <<"getPresignedUrl failed with unauthorized request">>]
    ELSE IF r.body = "unreadable" THEN [url |-> "", err |-> <<"failed to read response body">>]
    ELSE IF r.body = "garbage" THEN [url |-> "", err |-> <<"failed to unmarshal the results">>]
    ELSE [url |-> r.url, err |-> NoError]

getPresignedUrl(r) ==
    IF r.err # NoErr THEN [url |-> "", err |-> <<"failed to POST to tenant endpoint", r.err>>]
    ELSE IF r.status # 200
         THEN (IF r.status = 401
               THEN [url |-> "", err |-> <<"getPresignedUrl failed with unauthorized request">>]
               ELSE [url |-> "", err |-> <<"unexpected status code">>])
    ELSE IF r.body = "unreadable" THEN [url |-> "", err |-> <<"failed to read response body">>]
    ELSE IF r.body = "garbage" THEN [url |-> "", err |-> <<"failed to unmarshal the results">>]
    ELSE [url |-> r.url, err |-> NoError]

\* lines 1101-1116: the entry read off the uploaded bytes: CycloneDX first,
\* then SPDX, else the empty entry; a failed decoding is passed over.
SubjectAndURIByFormat(readFile) ==
    IF readFile.json /\ readFile.doc.bomFormat = "CycloneDX"
    THEN [subject |-> readFile.doc.component, uri |-> readFile.doc.serialNumber]
    ELSE IF readFile.json /\ readFile.doc.SPDXID = "SPDXRef-DOCUMENT"
    THEN [subject |-> readFile.doc.name, uri |-> readFile.doc.documentNamespace \o "#DOCUMENT"]
    ELSE NoEntry

SubjectAndURISpdxFirst(readFile) ==
    IF /\ readFile.json
       /\ readFile.doc.SPDXID = "SPDXRef-DOCUMENT"
       /\ readFile.doc.name # ""
       /\ readFile.doc.documentNamespace # ""
    THEN [subject |-> readFile.doc.name, uri |-> readFile.doc.documentNamespace \o "#DOCUMENT"]
    ELSE IF /\ readFile.json
            /\ readFile.doc.bomFormat = "CycloneDX"
            /\ readFile.doc.component # ""
            /\ readFile.doc.serialNumber # ""
    THEN [subject |-> readFile.doc.component, uri |-> readFile.doc.serialNumber]
    ELSE NoEntry

SubjectAndURI(readFile) ==
    IF /\ readFile.json
       /\ readFile.doc.bomFormat = "CycloneDX"
       /\ readFile.doc.component # ""
       /\ readFile.doc.serialNumber # ""
    THEN [subject |-> readFile.doc.component, uri |-> readFile.doc.serialNumber]
    ELSE IF /\ readFile.json
            /\ readFile.doc.SPDXID = "SPDXRef-DOCUMENT"
            /\ readFile.doc.name # ""
            /\ readFile.doc.documentNamespace # ""
    THEN [subject |-> readFile.doc.name, uri |-> readFile.doc.documentNamespace \o "#DOCUMENT"]
    ELSE NoEntry

\* lines 1078-1116: what uploadBlob makes of the answer to its PUT.
uploadBlobAnySuccess(r, readFile) ==
    IF r.err # NoErr THEN [ssau |-> NoEntry, err |-> <<"failed to http.Client Do", r.err>>]
    ELSE IF r.status >= 300
         THEN (IF r.status = 401
               THEN [ssau |-> NoEntry, err |-> <<"uploadBlob failed with unauthorized request">>]
               ELSE [ssau |-> NoEntry, err |-> <<"unexpected status code">>])
    ELSE [ssau |-> SubjectAndURI(readFile), err |-> NoError]

uploadBlob(r, readFile) ==
    IF r.err # NoErr THEN [ssau |-> NoEntry, err |-> <<"failed to http.Client Do", r.err>>]
    ELSE IF r.status # 200
         THEN (IF r.status = 401
               THEN [ssau |-> NoEntry, err |-> <<"uploadBlob failed with unauthorized request">>]
               ELSE [ssau |-> NoEntry, err |-> <<"unexpected status code">>])
    ELSE [ssau |-> SubjectAndURI(readFile), err |-> NoError]

\* lines 1033-1036: doctype := DocumentSBOM; if isOpenVex { DocumentOpenVEX }
DocTypeOf(isOpenVex) == IF isOpenVex THEN "OPEN_VEX" ELSE "SBOM"

\* line 716: open-vex without a tag, or with neither id nor subject.
OpenVexIncompleteNoTagOnly(f) == f.isOpenVex /\ f.tag = ""

OpenVexIncomplete(f) == f.isOpenVex /\ (f.tag = "" \/ (f.softwareID = "" /\ f.sbomSubject = ""))

\* line 732: fileInfo.IsDir() && isOpenVex
OpenVexOnDirectory(f, p) == p.kind = "dir" /\ f.isOpenVex

\* line 987: checkFile.Size() == 0
IsEmptyNever(blob) == FALSE

IsEmpty(blob) == blob.size = 0

\* lines 970 and 772: the entry a file's upload returned joins the slice.
CollectUploaded(l, ssau) == IF ssau = NoEntry THEN l ELSE Append(l, ssau)

Collect(l, ssau) == Append(l, ssau)

\* lines 779-788: log.Fatal on an error, os.Exit(1) on a blocked package,
\* else the return of uploadFiles and of main: code 0.
ExitCodeOfError(r) == IF r.err # Nil THEN 1 ELSE 0

ExitCode(r) == IF r.err # Nil THEN 1 ELSE IF r.blocked THEN 1 ELSE 0

\* The entry the walk is at, and the isOpenVex that uploadSingleFile is
\* called with: false from the walk (line 966), the flag otherwise (766).
Node == path.nodes[w]

IsOpenVexArg == IF path.kind = "file" THEN flags.isOpenVex ELSE FALSE

\* log.Fatal(): the process exits with code 1.
Fatal == upc' = "exited" /\ exit' = 1

\* The state at line 801 of a call with the entries "input".
Enter(input, api) ==
    /\ ssaus' = input
    /\ tenant' = api
    /\ next' = 1
    /\ tpc' = [i \in DOMAIN input |-> "idle"]
    /\ idCalls' = [i \in DOMAIN input |-> 0]
    /\ chkCalls' = [i \in DOMAIN input |-> 0]
    /\ ids' = [i \in DOMAIN input |-> NoIds]
    /\ recv' = [i \in DOMAIN input |-> NoPackages]
    /\ blocked' = [i \in DOMAIN input |-> FALSE]
    /\ blockedPurls' = [i \in DOMAIN input |-> << >>]
    /\ gerr' = Nil
    /\ ctxErr' = "none"
    /\ ret' = [st |-> "running", blocked |-> FALSE, err |-> Nil]

\* lines 711-734 and 758: uploadFiles checks the flags and the path, and
\* goes on to the upload unless one of them is fatal.
Validate ==
    /\ call = "uploadFiles"
    /\ upc = "start"
    /\ IF OpenVexIncomplete(flags) \/ path.kind = "missing" \/ OpenVexOnDirectory(flags, path)
       THEN Fatal
       ELSE upc' = "walk" /\ UNCHANGED exit
    /\ UNCHANGED <<call, flags, path, w, purl, resp, reqs, acc, uerr>>
    /\ UNCHANGED checker

\* An upload function returns the error e: uploadSingleFile as it is (line
\* 1006 or 1010), the walk wrapped and at once (lines 967-969: a non-nil
\* return of the callback ends filepath.Walk), and uploadFiles makes it
\* fatal (lines 760-771).
FailUploadAndGoOn(e) ==
    /\ uerr' = (IF path.kind = "file" THEN e ELSE <<"uploadSingleFile failed with error">> \o e)
    /\ w' = w + 1
    /\ upc' = "walk"
    /\ UNCHANGED exit

FailUpload(e) ==
    /\ uerr' = (IF path.kind = "file" THEN e ELSE <<"uploadSingleFile failed with error">> \o e)
    /\ w' = w
    /\ IF call = "uploadFiles" THEN Fatal ELSE upc' = "returned" /\ UNCHANGED exit

\* lines 961-972 and 982-1004: the callback of the walk (or uploadFiles,
\* for a single file) is at an entry: a directory is passed over, an empty
\* file returns the empty entry with no request, any other file is read
\* and the presign request made.
Visit ==
    /\ upc = "walk"
    /\ path.kind # "missing"
    /\ w <= Len(path.nodes)
    /\ resp' = NoResponse
    /\ purl' = ""
    /\ IF Node.isDir
       THEN w' = w + 1 /\ UNCHANGED <<upc, reqs, acc>>
       ELSE IF IsEmpty(Node.blob)
            THEN acc' = Collect(acc, NoEntry) /\ w' = w + 1 /\ UNCHANGED <<upc, reqs>>
            ELSE /\ reqs' = Append(reqs, [client |-> "authorized", method |-> "POST", url |-> "/presign",
                                          doctype |-> "none", file |-> w])
                 /\ upc' = "presign"
                 /\ UNCHANGED <<w, acc>>
    /\ UNCHANGED <<call, flags, path, uerr, exit>>
    /\ UNCHANGED checker

\* lines 961-963 and 975: filepath.Walk on a path that does not exist calls
\* the callback with the error of os.Lstat, and returns what it returns.
WalkMissing ==
    /\ upc = "walk"
    /\ path.kind = "missing"
    /\ uerr' = <<"lstat", "no such file or directory">>
    /\ upc' = "returned"
    /\ UNCHANGED <<call, flags, path, w, purl, resp, reqs, acc, exit>>
    /\ UNCHANGED checker

\* lines 919-954 and 1004-1007: the presign request comes back.
PresignResponse ==
    /\ upc = "presign"
    /\ \E r \in PresignAnswers :
         LET res == getPresignedUrl(r) IN
         /\ resp' = Received(r, "POST")
         /\ IF res.err # NoError
            THEN FailUpload(res.err) /\ UNCHANGED purl
            ELSE purl' = res.url /\ upc' = "presigned" /\ UNCHANGED <<w, uerr, exit>>
    /\ UNCHANGED <<call, flags, path, reqs, acc>>
    /\ UNCHANGED checker

\* lines 1010 and 1030-1078: uploadBlob builds the document and sends it to
\* the presigned URL by the client without the token.
PutWithToken ==
    /\ upc = "presigned"
    /\ reqs' = Append(reqs, [client |-> "authorized", method |-> "PUT", url |-> purl,
                             doctype |-> DocTypeOf(IsOpenVexArg), file |-> w])
    /\ upc' = "put"
    /\ UNCHANGED <<call, flags, path, w, purl, resp, acc, uerr, exit>>
    /\ UNCHANGED checker

Put ==
    /\ upc = "presigned"
    /\ reqs' = Append(reqs, [client |-> "default", method |-> "PUT", url |-> purl,
                             doctype |-> DocTypeOf(IsOpenVexArg), file |-> w])
    /\ upc' = "put"
    /\ UNCHANGED <<call, flags, path, w, purl, resp, acc, uerr, exit>>
    /\ UNCHANGED checker

\* lines 1078-1116, then 970 or 772: the PUT comes back.
PutResponse ==
    /\ upc = "put"
    /\ \E r \in PutReplies(purl) :
         LET res == uploadBlob(r, Node.blob) IN
         /\ resp' = Received(r, "PUT")
         /\ IF res.err # NoError
            THEN FailUpload(res.err) /\ UNCHANGED acc
            ELSE /\ acc' = Collect(acc, res.ssau)
                 /\ w' = w + 1
                 /\ upc' = "walk"
                 /\ UNCHANGED <<uerr, exit>>
    /\ UNCHANGED <<call, flags, path, purl, reqs>>
    /\ UNCHANGED checker

\* lines 972-975 and 775-778: the walk is over.  uploadDirectory returns
\* its slice; uploadFiles prints its line and, when check-blocked-packages
\* is set, calls the check with the slice; otherwise it returns.
UploadedThenCheck ==
    /\ upc = "walk"
    /\ path.kind # "missing"
    /\ w > Len(path.nodes)
    /\ resp' = NoResponse
    /\ IF call = "uploadDirectory"
       THEN upc' = "returned" /\ UNCHANGED exit /\ UNCHANGED checker
       ELSE /\ out' = Append(out, <<"Upload completed successfully">>)
            /\ \E api \in [DOMAIN acc -> {"clean", "plain"}] : Enter(acc, api)
            /\ upc' = "check"
            /\ UNCHANGED exit
    /\ UNCHANGED <<call, flags, path, w, purl, reqs, acc, uerr>>

Uploaded ==
    /\ upc = "walk"
    /\ path.kind # "missing"
    /\ w > Len(path.nodes)
    /\ resp' = NoResponse
    /\ IF call = "uploadDirectory"
       THEN upc' = "returned" /\ UNCHANGED exit /\ UNCHANGED checker
       ELSE /\ out' = Append(out, <<"Upload completed successfully">>)
            /\ IF flags.checkBlockedPackages
               THEN /\ \E api \in [DOMAIN acc -> {"clean", "plain"}] : Enter(acc, api)
                    /\ upc' = "check"
                    /\ UNCHANGED exit
               ELSE /\ upc' = "exited"
                    /\ exit' = 0
                    /\ UNCHANGED <<ssaus, tenant, next, tpc, idCalls, chkCalls, ids, recv,
                                   blocked, blockedPurls, gerr, ctxErr, ret>>
    /\ UNCHANGED <<call, flags, path, w, purl, reqs, acc, uerr>>

\* lines 778-789: the check has returned and the process exits.
Exit ==
    /\ call = "uploadFiles"
    /\ upc = "check"
    /\ ret.st = "returned"
    /\ upc' = "exited"
    /\ exit' = ExitCode(ret)
    /\ UNCHANGED <<call, flags, path, w, purl, resp, reqs, acc, uerr>>
    /\ UNCHANGED checker

\* -------------------------------------------------------- specifications

SeqsUpTo(S, n) == UNION {[1..k -> S] : k \in 0..n}

\* lines 801-809: the state at the first iteration of the loop, in a call
\* of the function on its own.
Start(input, api) ==
    /\ call = "checkSBOMsForBlockedPackages"
    /\ flags = NoFlags
    /\ path = NoPath
    /\ upc = "check"
    /\ w = 1
    /\ purl = ""
    /\ resp = NoResponse
    /\ reqs = << >>
    /\ acc = input
    /\ uerr = NoError
    /\ exit = 0
    /\ ssaus = input
    /\ tenant = api
    /\ next = 1
    /\ tpc = [i \in DOMAIN input |-> "idle"]
    /\ idCalls = [i \in DOMAIN input |-> 0]
    /\ chkCalls = [i \in DOMAIN input |-> 0]
    /\ ids = [i \in DOMAIN input |-> NoIds]
    /\ recv = [i \in DOMAIN input |-> NoPackages]
    /\ blocked = [i \in DOMAIN input |-> FALSE]
    /\ blockedPurls = [i \in DOMAIN input |-> << >>]
    /\ gerr = Nil
    /\ ctxErr = "none"
    /\ ret = [st |-> "running", blocked |-> FALSE, err |-> Nil]
    /\ out = << >>

Init == \E input \in SeqsUpTo(sbomSubjectAndURI, MaxEntries) :
            Start(input, [i \in DOMAIN input |-> "any"])

Next ==
    \/ Skip
    \/ Go
    \/ \E i \in Idx : IdLookup(i)
    \/ \E i \in Idx : IdResponse(i)
    \/ \E i \in Idx : CheckResponse(i)
    \/ Wait
    \/ DeadlineExpire

Spec == Init /\ [][Next]_vars

\* One entry more than the group runs at a time, and an empty entry among
\* them; the first entry is indexed late, the others at once.
CapInput ==
    <<[subject |-> "s", uri |-> "u"], [subject |-> "", uri |-> ""]>>
    \o [i \in 1..Limit |-> [subject |-> "s", uri |-> "u"]]

InitCap == Start(CapInput, [i \in DOMAIN CapInput |-> IF i = 1 THEN "late" ELSE "plain"])

SpecCap == InitCap /\ [][Next]_vars

\* Inputs of full and empty entries against a tenant that indexes some
\* entries late.  The Go scheduler runs every goroutine that can run, a
\* sleep of one second ends, and client.Do is taken to return; the deadline
\* is under no obligation to expire.
InitLive ==
    \E input \in SeqsUpTo({[subject |-> "s", uri |-> "u"], [subject |-> "", uri |-> ""]}, MaxEntries) :
        \E api \in [DOMAIN input -> {"late", "plain"}] : Start(input, api)

Fairness ==
    /\ WF_vars(Skip)
    /\ WF_vars(Go)
    /\ WF_vars(Wait)
    /\ \A i \in 1..MaxEntries :
         /\ WF_vars(i \in Idx /\ IdLookup(i))
         /\ WF_vars(i \in Idx /\ IdResponse(i))
         /\ WF_vars(i \in Idx /\ CheckResponse(i))

FairSpec == InitLive /\ [][Next]_vars /\ Fairness

\* The tenants whose answer to a request does not depend on when it is made
\* ("late" apart, whose 404s end in the same answer whenever they end).
FixedTenants == {"clean", "late", "broken", "unknown"}

\* Any input against a tenant API that is a function of the request: two
\* entries with the same subject and uri make the same requests (lines
\* 819 and 845 build the path from the entry alone), so they are answered
\* alike.
InitFixed ==
    \E input \in SeqsUpTo(sbomSubjectAndURI, MaxEntries) :
        \E api \in [DOMAIN input -> FixedTenants] :
            /\ \A i, j \in DOMAIN input : input[i] = input[j] => api[i] = api[j]
            /\ Start(input, api)

SpecFixed == InitFixed /\ [][Next]_vars

\* Inputs of full and empty entries, and the input that fills the group,
\* against a tenant that never indexes some entries and fails others.  Of
\* the 404s answered for ever only MaxRetries are told apart: from then on
\* the lookup in flight stands for the rest of the loop of lines 819-843,
\* which the done context ends.
InitTerm ==
    \/ \E input \in SeqsUpTo({[subject |-> "s", uri |-> "u"], [subject |-> "", uri |-> ""]}, MaxEntries) :
          \E api \in [DOMAIN input -> {"never", "late", "broken", "clean"}] : Start(input, api)
    \/ \E t \in {"never", "broken"} :
          Start(CapInput, [i \in DOMAIN CapInput |-> IF i = 1 THEN t ELSE "clean"])

\* As in FairSpec, every goroutine that can run does and client.Do is
\* taken to return; besides, the timer of context.WithTimeout (line 802)
\* fires when the call is still running after 15 minutes.
FairnessTerm ==
    /\ WF_vars(Skip)
    /\ WF_vars(Go)
    /\ WF_vars(Wait)
    /\ WF_vars(DeadlineExpire)
    /\ \A i \in 1..(Limit + MaxEntries) :
         /\ WF_vars(i \in Idx /\ IdLookup(i))
         /\ WF_vars(i \in Idx /\ IdResponse(i))
         /\ WF_vars(i \in Idx /\ CheckResponse(i))

TermSpec == InitTerm /\ [][Next]_vars /\ FairnessTerm

\* What file-path may name: nothing, a file, or a directory with up to
\* MaxFiles entries below it, in the (lexical) order of the walk.  The root
\* itself is visited first and passed over like any directory.
Paths ==
    {NoPath}
    \cup {[kind |-> "file", nodes |-> <<FileNode(b)>>] : b \in {EmptyBlob, TextBlob, CdxBlob}}
    \cup {[kind |-> "dir", nodes |-> ns] :
            ns \in SeqsUpTo({DirNode} \cup {FileNode(b) : b \in {EmptyBlob, TextBlob, CdxBlob}}, MaxFiles)}

\* The state on entry to uploadFiles (line 692) or to uploadDirectory (line
\* 958): nothing requested, nothing collected, the check not called.
StartUpload(c, f, p) ==
    /\ call = c
    /\ flags = f
    /\ path = p
    /\ upc = (IF c = "uploadFiles" THEN "start" ELSE "walk")
    /\ w = 1
    /\ purl = ""
    /\ resp = NoResponse
    /\ reqs = << >>
    /\ acc = << >>
    /\ uerr = NoError
    /\ exit = 0
    /\ ssaus = << >>
    /\ tenant = << >>
    /\ next = 1
    /\ tpc = << >>
    /\ idCalls = << >>
    /\ chkCalls = << >>
    /\ ids = << >>
    /\ recv = << >>
    /\ blocked = << >>
    /\ blockedPurls = << >>
    /\ gerr = Nil
    /\ ctxErr = "none"
    /\ ret = [st |-> "idle", blocked |-> FALSE, err |-> Nil]
    /\ out = << >>

\* A run of the CLI with any flags on any path; a call of uploadDirectory
\* on a directory or on nothing; a run of the CLI on one file of any
\* content.
InitUpload ==
    \/ \E f \in Flags, p \in Paths : StartUpload("uploadFiles", f, p)
    \/ \E p \in {q \in Paths : q.kind # "file"} : StartUpload("uploadDirectory", NoFlags, p)
    \/ \E b \in Blobs, c \in BOOLEAN :
         StartUpload("uploadFiles", [NoFlags EXCEPT !.checkBlockedPackages = c],
                     [kind |-> "file", nodes |-> <<FileNode(b)>>])

NextUpload ==
    \/ Validate
    \/ Visit
    \/ WalkMissing
    \/ PresignResponse
    \/ Put
    \/ PutResponse
    \/ Uploaded
    \/ Exit
    \/ Next

SpecUpload == InitUpload /\ [][NextUpload]_vars

\* ---------------------------------------------------------------- claims

Done == ret.st = "returned"

Succeeded == Done /\ ret.err = Nil

BothEmpty(i) == ssaus[i].subject = "" /\ ssaus[i].uri = ""

\* C1: when every entry of the input has an empty subject and an empty uri
\* (the empty input included), no client.Do call is ever made and the
\* function returns (false, nil).
C1_OnlyEmptyEntries ==
    (\A i \in Idx : BothEmpty(i)) =>
        /\ \A i \in Idx : idCalls[i] = 0 /\ chkCalls[i] = 0 /\ tpc[i] = "idle"
        /\ Done => ret.blocked = FALSE /\ ret.err = Nil

C1_Witness ==
    /\ N = MaxEntries
    /\ \A i \in Idx : BothEmpty(i)
    /\ Done

\* C2: at most 5 tasks have started and not yet returned, so at most 5
\* requests are in flight, and an entry that finds 5 tasks running is not
\* started.
C2_AtMostFiveTasks ==
    /\ Cardinality({i \in Idx : tpc[i] \in {"start", "idReq", "sleep", "chkReq"}}) <= 5
    /\ Cardinality({i \in Idx : tpc[i] \in {"idReq", "chkReq"}}) <= 5
    /\ \A i \in Idx : i >= next => tpc[i] = "idle"

C2_Witness ==
    /\ Cardinality({i \in Idx : tpc[i] \in {"idReq", "chkReq"}}) = 5
    /\ next <= N
    /\ ~BothEmpty(next)

\* C3: when the task of some entry has failed, the function returns false
\* with a non-nil error, whatever the other entries got, an entry whose
\* check answered blocked=true included.
C3_AnyFailureFailsAll ==
    (Done /\ \E i \in Idx : tpc[i] = "failed") => ret.blocked = FALSE /\ ret.err # Nil

C3_Witness ==
    /\ Done
    /\ \E i, j \in Idx : tpc[i] = "failed" /\ tpc[j] = "ok" /\ recv[j].Blocked /\ blocked[j]

\* The packages of the lines printed from position p on, up to the empty
\* line that ends an entry's report.
RECURSIVE PurlsAt(_)
PurlsAt(p) ==
    IF p > Len(out) \/ out[p] = <<"">> \/ Len(out[p]) # 2 THEN << >>
    ELSE <<out[p][2]>> \o PurlsAt(p + 1)

\* The header lines of the report.
Headers == {p \in 1..Len(out) : Len(out[p]) = 3}

\* The header line of entry i: blocked entries are reported by increasing
\* index, so it is the k-th header for the k-th blocked entry.
HeaderOf(i) ==
    LET k == Cardinality({j \in 1..i : recv[j].Blocked})
    IN  CHOOSE p \in Headers : Cardinality({q \in Headers : q <= p}) = k

\* C7: after a successful return, an entry whose check answered
\* blocked=true makes the result true and is reported with exactly the
\* blocked_packages it received, in the order received.
C7_BlockedReportedVerbatim ==
    Succeeded =>
        \A i \in Idx : recv[i].Blocked =>
            /\ ret.blocked = TRUE
            /\ Cardinality(Headers) = Cardinality({j \in Idx : recv[j].Blocked})
            /\ out[HeaderOf(i)] = <<"Blocked packages found for SBOM subject", ssaus[i].subject, ssaus[i].uri>>
            /\ PurlsAt(HeaderOf(i) + 1) = recv[i].BlockedPackages
            /\ out[HeaderOf(i) + Len(recv[i].BlockedPackages) + 1] = <<"">>

C7_Witness ==
    /\ Succeeded
    /\ \E i \in Idx : recv[i].Blocked /\ Len(recv[i].BlockedPackages) = 2

\* C8: after a successful return the result is true exactly when the check
\* of some checkable entry answered blocked=true.
C8_TrueIffSomeBlocked ==
    Succeeded => (ret.blocked <=> \E i \in Idx : ~BothEmpty(i) /\ recv[i].Blocked)

C8_Witness ==
    /\ Succeeded
    /\ ret.blocked
    /\ \E i, j \in Idx : tpc[i] = "ok" /\ ~recv[i].Blocked /\ recv[j].Blocked

\* C9: there are as many result slots as input entries, slot i holds the
\* outcome of entry i, and the slot of a skipped entry stays not blocked.
C9_SlotsAligned ==
    /\ Len(blocked) = Len(ssaus)
    /\ Len(blockedPurls) = Len(ssaus)
    /\ \A i \in Idx :
         /\ blocked[i] = (tpc[i] = "ok" /\ recv[i].Blocked)
         /\ blockedPurls[i] = (IF recv[i].Blocked THEN recv[i].BlockedPackages ELSE << >>)
         /\ BothEmpty(i) => blocked[i] = FALSE /\ blockedPurls[i] = << >>

C9_Witness ==
    /\ Done
    /\ N = 2
    /\ BothEmpty(1) /\ tpc[1] = "idle"
    /\ blocked[2] /\ blockedPurls[2] # << >>

\* C4 as claimed: once the group's context is done (a task has returned an
\* error, or the deadline has expired), an entry whose task has not been
\* started is never started and no client.Do call is made for it.
C4_NeverStartedAfterCancel ==
    [][\A i \in Idx :
          (ctxErr # "none" /\ tpc[i] = "idle") => (tpc'[i] = "idle" /\ idCalls'[i] = idCalls[i])]_vars

\* C4 as amended: g.Go starts such an entry all the same, but a task that
\* has made no request when the context is done makes exactly one
\* client.Do call, with the done context, which fails: the task returns an
\* error, asks for no check and leaves its slot alone.
C4_LateTaskFailsAtFirstCall ==
    [][\A i \in Idx :
          (ctxErr # "none" /\ tpc[i] \in {"idle", "start"} /\ tpc'[i] \notin {"idle", "start"})
              => /\ tpc'[i] = "failed"
                 /\ idCalls'[i] = 1
                 /\ chkCalls'[i] = 0
                 /\ blocked'[i] = FALSE
                 /\ gerr' # Nil]_vars

\* The last entry can only have been started after the one task that has
\* returned, and that task failed.
C4_Witness ==
    /\ N > Limit
    /\ tpc[N] = "failed" /\ idCalls[N] = 1 /\ chkCalls[N] = 0
    /\ Cardinality({j \in 1..(N - 1) : tpc[j] = "failed"}) = 1
    /\ Cardinality({j \in 1..(N - 1) : tpc[j] \in Running}) = Limit - 1

\* C5: when the deadline has expired while a task sleeps after a 404, the
\* task's next lookup is its last: it fails with the deadline error, which
\* the group keeps unless it already holds an error; and the function
\* returns the group's error with no verdict and no report.
C5_DeadlineEndsRetry ==
    /\ [][\A i \in Idx :
            (ctxErr = "deadline" /\ tpc[i] = "sleep" /\ tpc'[i] # "sleep")
                => /\ tpc'[i] = "failed"
                   /\ idCalls'[i] = idCalls[i] + 1
                   /\ chkCalls'[i] = 0
                   /\ gerr' = (IF gerr = Nil THEN <<"request", "IDs", "deadline">> ELSE gerr)]_vars
    /\ []((Done /\ gerr # Nil) => (ret.err = gerr /\ ret.blocked = FALSE /\ out = << >>))

C5_Witness ==
    /\ Done
    /\ N = 1
    /\ idCalls[1] >= 2 /\ chkCalls[1] = 0 /\ tpc[1] = "failed"
    /\ ret.err = <<"request", "IDs", "deadline">>
    /\ ret.blocked = FALSE

\* Something other than entry i's own answers ended the call: the deadline,
\* or the failure of another entry.
Interrupted(i) == ctxErr = "deadline" \/ \E j \in Idx \ {i} : tpc[j] = "failed"

\* C6: an entry whose identity lookups are answered 404 and then 200 is
\* looked up again after each 404, and its check request is issued in the
\* end, unless the deadline or another entry's failure comes first.
C6_RetryThenCheck ==
    \A i \in 1..MaxEntries :
        (i \in Idx /\ tenant[i] = "late" /\ tpc[i] \in {"idReq", "sleep"})
            ~> (i \in Idx /\ (chkCalls[i] = 1 \/ Interrupted(i)))

C6_Witness ==
    \E i \in Idx :
        /\ tenant[i] = "late"
        /\ idCalls[i] >= 2
        /\ tpc[i] = "chkReq" /\ chkCalls[i] = 1
        /\ ids[i] # NoIds
        /\ ~Interrupted(i)

AnswersFail == \E i \in Idx : ~BothEmpty(i) /\ tenant[i] \in {"broken", "unknown"}

AnswersBlock == \E i \in Idx : ~BothEmpty(i) /\ tenant[i] = "late"

\* C11: with the input and the tenant's answer to every request fixed, the
\* call returns the same (anyBlocked, error or not) whatever the
\* interleaving of the tasks, as long as the 15 minutes do not run out.
C11_VerdictDeterministic ==
    (Done /\ ctxErr # "deadline") =>
        /\ (ret.err # Nil) <=> AnswersFail
        /\ ret.blocked <=> (AnswersBlock /\ ~AnswersFail)

\* The blocked entry was through before the failing one ended the call.
C11_Witness ==
    /\ Done /\ ctxErr # "deadline"
    /\ N = 2
    /\ tenant[1] = "broken" /\ tpc[1] = "failed" /\ chkCalls[1] = 1
    /\ tenant[2] = "late" /\ tpc[2] = "ok" /\ blocked[2]
    /\ ret.err # Nil /\ ret.blocked = FALSE

\* C12: when the call returns an error nothing of the verdict is printed:
\* no "Blocked packages found for SBOM subject" line and no package, even
\* for an entry whose check had completed with blocked=true.
C12_NoPartialVerdict ==
    (Done /\ ret.err # Nil) =>
        /\ \A p \in 1..Len(out) : out[p][1] \notin {"Blocked packages found for SBOM subject", "purl"}
        /\ ret.blocked = FALSE

C12_Witness ==
    /\ Done /\ ret.err # Nil
    /\ \E j \in Idx : tpc[j] = "ok" /\ blocked[j] /\ blockedPurls[j] = <<"a", "b">>
    /\ out = << >>

\* The process has exited.
Exited == upc = "exited"

\* C13: with check-blocked-packages set the process exits with code 0
\* exactly when the check returned without an error and with no entry
\* blocked; a check that returns true or an error makes the code non-zero.
C13_ExitCode ==
    (call = "uploadFiles" /\ flags.checkBlockedPackages /\ Exited) =>
        (exit = 0 <=> (Done /\ ret.err = Nil /\ ret.blocked = FALSE))

C13_Witness ==
    /\ call = "uploadFiles" /\ flags.checkBlockedPackages /\ Exited
    /\ Done /\ ret.err = Nil /\ ret.blocked
    /\ \E i \in Idx : tpc[i] = "ok" /\ blocked[i]
    /\ exit = 1

IsFile(n) == ~n.isDir

IsPut(q) == q.method = "PUT"

IsPost(q) == q.method = "POST"

\* The regular files below the path, in walk order, and the uploads made.
Files == SelectSeq(path.nodes, IsFile)

Puts == SelectSeq(reqs, IsPut)

\* uploadFiles has called the check.
Handed == call = "uploadFiles" /\ ret.st # "idle"

\* C14 as claimed: the sequence handed to the check has exactly one entry
\* per file uploaded in this run, in walk order; a file that was not
\* uploaded has no entry.
C14_OneEntryPerUpload ==
    Handed =>
        /\ Len(ssaus) = Len(Puts)
        /\ \A k \in 1..Len(Puts) : ssaus[k] = SubjectAndURI(path.nodes[Puts[k].file].blob)

\* C14 as amended: the sequence has one entry per regular file visited, in
\* walk order: what was read off the file when it was uploaded, and the
\* empty entry for a zero-length file, which is not uploaded; every other
\* file was uploaded once, in walk order.
C14_OneEntryPerFile ==
    Handed =>
        /\ Len(ssaus) = Len(Files)
        /\ \A k \in 1..Len(Files) :
               ssaus[k] = (IF Files[k].blob.size = 0 THEN NoEntry ELSE SubjectAndURI(Files[k].blob))
        /\ Len(Puts) = Cardinality({k \in 1..Len(Files) : Files[k].blob.size # 0})
        /\ \A j, k \in 1..Len(Puts) : j < k => Puts[j].file < Puts[k].file
        /\ \A k \in 1..Len(Puts) : path.nodes[Puts[k].file].blob.size # 0

C14_Witness ==
    /\ Handed
    /\ path.kind = "dir"
    /\ Len(Files) = 2
    /\ Files[1].blob.size = 0
    /\ Len(Puts) = 1
    /\ ssaus = <<NoEntry, [subject |-> "s", uri |-> "u"]>>

\* The PUT of the file last sent has just been answered with status c.
PutAnswered(c) == resp.to = "PUT" /\ resp.err = NoErr /\ resp.status = c

JustSent == path.nodes[reqs[Len(reqs)].file].blob

\* The criteria of the two formats: every required field present and not
\* empty.
IsCycloneDX(d) == d.bomFormat = "CycloneDX" /\ d.component # "" /\ d.serialNumber # ""

IsSPDX(d) == d.SPDXID = "SPDXRef-DOCUMENT" /\ d.name # "" /\ d.documentNamespace # ""

\* C15: after a PUT answered 200 the upload of the file returns no error
\* whatever the file holds, and bytes that are not JSON, or that meet
\* neither the CycloneDX nor the SPDX criteria, give the empty entry.
C15_ExtractionNeverFails ==
    PutAnswered(200) =>
        /\ uerr = NoError
        /\ upc = "walk"
        /\ Len(acc) >= 1
        /\ (~JustSent.json \/ (~IsCycloneDX(JustSent.doc) /\ ~IsSPDX(JustSent.doc)))
               => acc[Len(acc)] = NoEntry

C15_Witness ==
    /\ PutAnswered(200)
    /\ JustSent.json
    /\ JustSent.doc.bomFormat = "CycloneDX" /\ JustSent.doc.component = "s" /\ JustSent.doc.serialNumber = ""
    /\ JustSent.doc.SPDXID = "SPDXRef-DOCUMENT" /\ JustSent.doc.name = "p" /\ JustSent.doc.documentNamespace = ""
    /\ acc = <<NoEntry>>
    /\ uerr = NoError

\* C16: uploadSingleFile on a zero-length file makes no presign POST and
\* no PUT, and returns no error (with the empty entry).
C16_EmptyFileNoRequest ==
    /\ \A k \in 1..Len(reqs) : path.nodes[reqs[k].file].blob.size # 0
    /\ (path.kind = "file" /\ path.nodes[1].blob.size = 0) =>
           /\ reqs = << >>
           /\ uerr = NoError
           /\ upc \in {"start", "walk", "check", "exited"}
           /\ w > 1 => acc = <<NoEntry>>

C16_Witness ==
    /\ path.kind = "file" /\ path.nodes[1].blob.size = 0
    /\ w = 2
    /\ Exited /\ exit = 0
    /\ reqs = << >> /\ uerr = NoError

\* C17: getPresignedUrl returns the presignedUrl of the body and no error
\* when the POST is answered 200 with a JSON body, and the empty string
\* with an error for any other status and for a failed POST.
C17_PresignResult ==
    resp.to = "POST" =>
        /\ (resp.err = NoErr /\ resp.status = 200 /\ resp.body = "json") =>
               (purl = resp.url /\ uerr = NoError /\ upc \in {"presigned", "put"})
        /\ (resp.err # NoErr \/ resp.status # 200) =>
               (purl = "" /\ uerr # NoError /\ upc \in {"returned", "exited"} /\ IsPost(reqs[Len(reqs)]))

C17_Witness ==
    /\ resp.to = "POST"
    /\ resp.err = NoErr /\ resp.status = 500
    /\ purl = ""
    /\ uerr = <<"unexpected status code">>
    /\ Len(reqs) = 1

\* uploadBlob returns no error exactly for a PUT answered 200, and the
\* empty entry with every error: for the PUT in flight, and for the one
\* last answered.
BlobResult ==
    /\ upc = "put" =>
          \A r \in PutAnswers :
              /\ (uploadBlob(r, Node.blob).err = NoError) <=> (r.err = NoErr /\ r.status = 200)
              /\ (r.err # NoErr \/ r.status # 200) => uploadBlob(r, Node.blob).ssau = NoEntry
    /\ resp.to = "PUT" =>
          /\ (uerr = NoError) <=> PutAnswered(200)
          /\ uerr # NoError => (upc \in {"returned", "exited"} /\ Len(acc) < Len(Files))

\* uploadSingleFile has returned no error for entry k of the walk.
ReturnedNil(k) == k \in 1..Len(path.nodes) /\ k < w /\ ~path.nodes[k].isDir

PutFor(k) == \E j \in 1..Len(reqs) : IsPut(reqs[j]) /\ reqs[j].file = k

\* C18 as claimed: uploadBlob, and therefore uploadSingleFile, returns no
\* error if and only if the PUT completed with status 200.
C18_NilIffPut200 ==
    /\ BlobResult
    /\ \A k \in 1..MaxFiles : ReturnedNil(k) => PutFor(k)

\* C18 as amended: that holds of uploadBlob; uploadSingleFile returns no
\* error if and only if the file is empty, and then nothing is sent, or
\* its PUT completed with status 200.
C18_NilIffEmptyOrPut200 ==
    /\ BlobResult
    /\ \A k \in 1..MaxFiles : ReturnedNil(k) => (PutFor(k) <=> path.nodes[k].blob.size # 0)
    /\ uerr = NoError => \A k \in 1..MaxFiles : PutFor(k) => (ReturnedNil(k) \/ (k = w /\ upc = "put"))

C18_Witness ==
    /\ resp.to = "PUT" /\ resp.err = NoErr /\ resp.status = 204
    /\ uerr # NoError
    /\ w = 2
    /\ ReturnedNil(1) /\ ~PutFor(1)
    /\ acc = <<NoEntry>>

C20_OpenVexSingleFileOnly ==
    /\ (/\ call = "uploadFiles"
        /\ flags.isOpenVex
        /\ \/ flags.tag = ""
           \/ (flags.softwareID = "" /\ flags.sbomSubject = "")
           \/ path.kind = "dir") =>
           /\ reqs = << >>
           /\ upc \in {"start", "exited"}
           /\ Exited => exit = 1
    /\ \A j \in 1..Len(reqs) :
           IsPut(reqs[j]) =>
               reqs[j].doctype = (IF path.kind = "file" /\ flags.isOpenVex THEN "OPEN_VEX" ELSE "SBOM")

C20_Witness ==
    /\ call = "uploadFiles"
    /\ flags.isOpenVex
    /\ flags.tag = "govulncheck" /\ flags.softwareID = "" /\ flags.sbomSubject = ""
    /\ path.kind = "file" /\ path.nodes[1].blob.size # 0
    /\ Exited /\ exit = 1
    /\ reqs = << >>

\* C21: the check request of an entry is made only when an identity lookup
\* of that entry has just been answered 200 (never for an entry whose
\* lookups are answered 500), with the ids of that answer, and once only.
C21_ProtocolOrder ==
    [][\A i \in Idx :
          chkCalls'[i] # chkCalls[i] =>
              /\ tpc[i] = "idReq"
              /\ idCalls[i] >= 1
              /\ chkCalls[i] = 0 /\ chkCalls'[i] = 1
              /\ tenant[i] # "unknown"
              /\ tpc'[i] \in {"chkReq", "failed"}
              /\ tpc'[i] = "chkReq" => ids'[i] = PlainIds]_vars

C21_Witness ==
    \E i \in Idx :
        /\ tenant[i] = "late"
        /\ idCalls[i] = 2
        /\ tpc[i] = "chkReq" /\ chkCalls[i] = 1
        /\ ids[i] = PlainIds

\* C22: an entry whose identity lookup is answered with a status other
\* than 200 and 404 fails at that answer: one lookup, no other, no check
\* request, and the call returns an error and no verdict.
C22_OtherStatusFailsEntry ==
    \A i \in Idx :
        tenant[i] = "unknown" =>
            /\ idCalls[i] <= 1
            /\ chkCalls[i] = 0
            /\ tpc[i] \in {"idle", "start", "idReq", "failed"}
            /\ (Done /\ ~BothEmpty(i)) => (tpc[i] = "failed" /\ ret.err # Nil /\ ret.blocked = FALSE)

C22_Witness ==
    /\ Done
    /\ \E i, j \in Idx :
          /\ tenant[i] = "unknown" /\ tpc[i] = "failed" /\ idCalls[i] = 1
          /\ tpc[j] = "ok" /\ blocked[j]
    /\ ret.err = ErrStatus("IDs")

\* C23: no entry makes more than one check request; an entry whose check is
\* answered with a status other than 200, 404 included, fails with its slot
\* left not blocked, and the call returns the unexpected-status error when
\* nothing else ends it.
C23_CheckNeverRetried ==
    \A i \in Idx :
        /\ chkCalls[i] <= 1
        /\ tenant[i] = "broken" =>
              /\ tpc[i] # "ok"
              /\ blocked[i] = FALSE /\ blockedPurls[i] = << >>
              /\ (Done /\ ~BothEmpty(i)) => (tpc[i] = "failed" /\ ret.err # Nil)
              /\ (/\ Done /\ ~BothEmpty(i) /\ ctxErr # "deadline"
                  /\ \A j \in Idx : tenant[j] \in {"clean", "late"} \/ ssaus[j] = ssaus[i] \/ BothEmpty(j))
                    => ret.err = ErrStatus("check")

C23_Witness ==
    /\ Done /\ ctxErr # "deadline"
    /\ N = 2
    /\ tenant[1] = "broken" /\ tpc[1] = "failed" /\ idCalls[1] = 1 /\ chkCalls[1] = 1
    /\ tenant[2] = "clean" /\ tpc[2] = "ok"
    /\ ret.err = ErrStatus("check")

\* C24: an entry looks its identity up again only after a sleep, that is
\* after a 404, and then it always does, however many lookups it has made:
\* only a done context stops it.  The lookups repeated never outnumber the
\* 404 answers given, so nothing else is retried; a task that has returned
\* makes no further request, and a call that has returned stays returned.
C24_RetryOnly404 ==
    /\ [][\A i \in Idx :
            /\ (tpc[i] = "sleep" /\ tpc'[i] # "sleep") =>
                   /\ idCalls'[i] = idCalls[i] + 1
                   /\ tpc'[i] = (IF ctxErr = "none" THEN "idReq" ELSE "failed")
            /\ (idCalls'[i] # idCalls[i] /\ idCalls[i] >= 1) => tpc[i] = "sleep"
            /\ tpc[i] \in {"failed", "ok"} =>
                   (tpc'[i] = tpc[i] /\ idCalls'[i] = idCalls[i] /\ chkCalls'[i] = chkCalls[i])
            /\ Done => ret' = ret]_vars
    /\ [](NotFoundsUpTo(N) <= MaxRetries)

C24_Witness ==
    \E i \in Idx :
        /\ idCalls[i] = MaxRetries + 1
        /\ tpc[i] = "idReq"
        /\ ctxErr = "none"

\* C25: slot i changes only in the step in which the task of entry i ends
\* well, from its initial value, so it is written by its own task and once;
\* the call reports and returns only when no started task is left, and no
\* slot changes from then on.
C25_SlotsRaceFree ==
    [][/\ \A i \in Idx :
            (blocked'[i] # blocked[i] \/ blockedPurls'[i] # blockedPurls[i]) =>
                /\ tpc[i] = "chkReq" /\ tpc'[i] = "ok"
                /\ blocked[i] = FALSE /\ blockedPurls[i] = << >>
                /\ \A j \in Idx \ {i} : blocked'[j] = blocked[j] /\ blockedPurls'[j] = blockedPurls[j]
       /\ (ret' # ret \/ out' # out) =>
            /\ next > N
            /\ \A i \in Idx : tpc[i] \in {"idle", "ok", "failed"}
            /\ blocked' = blocked /\ blockedPurls' = blockedPurls
       /\ Done => (blocked' = blocked /\ blockedPurls' = blockedPurls)]_vars

C25_Witness ==
    /\ Succeeded
    /\ Cardinality({i \in Idx : blocked[i] /\ blockedPurls[i] # << >>}) = Limit + 1
    /\ out # << >>

\* What the entries up to k are to be reported as: for each entry answered
\* blocked=true, in input order, its header, its packages as received, and
\* an empty line.
RECURSIVE ReportedUpTo(_)
ReportedUpTo(k) ==
    IF k = 0 THEN << >>
    ELSE ReportedUpTo(k - 1)
         \o (IF tpc[k] = "ok" /\ recv[k].Blocked
             THEN <<<<"Blocked packages found for SBOM subject", ssaus[k].subject, ssaus[k].uri>>>>
                  \o [p \in 1..Len(recv[k].BlockedPackages) |-> <<"purl", recv[k].BlockedPackages[p]>>]
                  \o <<<<"">>>>
             ELSE << >>)

\* C26: in whatever order the tasks ended, the report of a successful call
\* is the blocked entries by increasing index, each header followed at once
\* by that entry's packages, and nothing of any other entry.
C26_ReportInInputOrder ==
    /\ Succeeded => out = ReportedUpTo(N)
    /\ ~Done => out = << >>

C26_Witness ==
    /\ Succeeded
    /\ N = 2
    /\ ssaus[1] # ssaus[2]
    /\ recv[1].Blocked /\ recv[2].Blocked
    /\ idCalls[1] = 2 /\ idCalls[2] = 1
    /\ Len(out) = 8

\* C27: every call returns in the end: the loop gets through the input and
\* g.Wait returns, also when an identity is answered 404 for ever and when
\* an entry fails while others sleep or wait for a slot.
C27_Terminates == <>Done

C27_Witness ==
    /\ Done
    /\ N > Limit
    /\ tenant[1] = "never" /\ idCalls[1] = MaxRetries + 1 /\ tpc[1] = "failed"
    /\ \A i \in 3..N : tpc[i] = "ok"
    /\ ret.err = <<"request", "IDs", "deadline">>

\* The answer to a presign request that getPresignedUrl returns a URL for.
Presigned == resp.to = "POST" /\ resp.err = NoErr /\ resp.status = 200 /\ resp.body = "json"

\* C28: in uploadSingleFile every PUT directly follows the presign POST of
\* the same file, and goes to the URL that POST was answered with; after a
\* presign that failed no PUT is made; every POST goes by the authorized
\* client and every PUT by the default client.
C28_PresignThenPut ==
    /\ \A j \in 1..Len(reqs) :
           /\ reqs[j].method = "POST" => reqs[j].client = "authorized"
           /\ reqs[j].method = "PUT" =>
                  /\ reqs[j].client = "default"
                  /\ j > 1
                  /\ reqs[j - 1].method = "POST"
                  /\ reqs[j - 1].file = reqs[j].file
           /\ reqs[j].method \in {"POST", "PUT"}
    /\ upc = "put" =>
           /\ Presigned
           /\ reqs[Len(reqs)].method = "PUT"
           /\ reqs[Len(reqs)].url = resp.url
    /\ upc = "presigned" => (Presigned /\ reqs[Len(reqs)].method = "POST")
    /\ (resp.to = "POST" /\ ~Presigned) =>
           /\ reqs[Len(reqs)].method = "POST"
           /\ upc \in {"returned", "exited"}

C28_Witness ==
    /\ upc = "put"
    /\ Len(reqs) = 4
    /\ reqs[2].method = "PUT" /\ reqs[2].file = 1
    /\ reqs[4].method = "PUT" /\ reqs[4].file = 2
    /\ reqs[4].url = "https://bucket/key"
    /\ reqs[3].client = "authorized" /\ reqs[4].client = "default"

\* An identity or a check request has been made, or the check entered.
CheckStarted ==
    \/ ret.st # "idle"
    \/ \E i \in DOMAIN idCalls : idCalls[i] > 0
    \/ \E i \in DOMAIN chkCalls : chkCalls[i] > 0

\* C29: the check of blocked packages starts only when every upload of the
\* run has returned without an error: the walk is over, every file has its
\* entry and every file that is not empty its PUT; after a failed upload,
\* and when check-blocked-packages is not set, no identity and no check
\* request is made.
C29_CheckAfterUploads ==
    /\ (call # "checkSBOMsForBlockedPackages" /\ CheckStarted) =>
           /\ call = "uploadFiles"
           /\ flags.checkBlockedPackages
           /\ uerr = NoError
           /\ upc \in {"check", "exited"}
           /\ w > Len(path.nodes)
           /\ Len(acc) = Len(Files)
           /\ ssaus = acc
           /\ \A k \in 1..Len(path.nodes) :
                  (~path.nodes[k].isDir /\ path.nodes[k].blob.size # 0) => PutFor(k)
           /\ out # << >> /\ out[1] = <<"Upload completed successfully">>
    /\ (call # "checkSBOMsForBlockedPackages" /\ (uerr # NoError \/ ~flags.checkBlockedPackages)) =>
           ~CheckStarted

C29_Witness ==
    /\ call = "uploadFiles"
    /\ path.kind = "dir"
    /\ Len(Puts) = 2
    /\ Len(ssaus) = 2
    /\ idCalls[1] = 1 /\ chkCalls[1] = 1 /\ idCalls[2] = 1

\* Both fields of the entry are empty, or neither is.
Paired(e) == (e.subject = "") <=> (e.uri = "")

\* C30: every entry the upload collects, and every entry it hands to the
\* check, has both fields empty or both fields non-empty; a file that
\* meets the CycloneDX and the SPDX criteria alike gives the CycloneDX
\* pair: the component name and the serial number.
C30_EntriesPaired ==
    /\ \A j \in 1..Len(acc) : Paired(acc[j])
    /\ call # "checkSBOMsForBlockedPackages" => \A j \in 1..Len(ssaus) : Paired(ssaus[j])
    /\ (PutAnswered(200) /\ JustSent.json /\ IsCycloneDX(JustSent.doc) /\ IsSPDX(JustSent.doc)) =>
           acc[Len(acc)] = [subject |-> JustSent.doc.component, uri |-> JustSent.doc.serialNumber]

C30_Witness ==
    /\ PutAnswered(200)
    /\ JustSent.json
    /\ IsCycloneDX(JustSent.doc)
    /\ IsSPDX(JustSent.doc)
    /\ acc = <<[subject |-> "s", uri |-> "u"]>>

====
